---- MODULE Spec2Model ----
(***************************************************************************)
(* Model of langium's workspace discovery:                                 *)
(*   - NodeFileSystemProvider (workspace/file-system-provider.ts): the     *)
(*     filtered, sequential, depth-first traversal of a directory tree;    *)
(*   - DefaultWorkspaceManager (workspace/workspace-manager.ts): the       *)
(*     one-shot initializeWorkspace procedure built on it.                 *)
(*                                                                         *)
(* A name is the sequence of its tokens, where "." is a token of its own   *)
(* and every other token is a non-empty run of characters without a dot:   *)
(* 'a.lang' is <<"a", ".", "lang">>.  A location (URI) is the sequence of  *)
(* the names on its path.                                                  *)
(*                                                                         *)
(* Execution is single-threaded and cooperative.  The only operations that *)
(* wait for the outside world are the directory listings (fs.promises.     *)
(* readdir), the hook and the build; the continuations of every other      *)
(* await are promise jobs, which all run before the next listing is        *)
(* answered.  An action is therefore the answer to one listing together    *)
(* with every continuation it sets off.                                    *)
(***************************************************************************)
EXTENDS Integers, Sequences, FiniteSets, TLC

VARIABLES
    disk,        \* the storage: directory location -> its dirents, in storage order
    failing,     \* directory locations whose listing is refused (permission denied)
    tasks,       \* the traverse calls made so far, in call order
    registry,    \* ServiceRegistry.all: the registered languages
    wm,          \* the activation of initializeWorkspace
    docStore,    \* LangiumDocuments: locations with a document, in creation order
    buildCalls,  \* DocumentBuilder.build: the argument of every invocation
    wm2,         \* the activation of a second call of initializeWorkspace
    tasks2       \* the traverse calls of the second call, in folder order

vars == <<disk, failing, tasks, registry, wm, docStore, buildCalls, wm2, tasks2>>

(***************************************************************************)
(* Bounds of the model.                                                    *)
(***************************************************************************)
MaxFolders == 2      \* workspace folders of one initializeWorkspace call
MaxFailing == 1      \* directories whose listing is refused
MaxRejected == 1     \* entries an arbitrary filter rejects
MaxHookDocs == 1     \* documents contributed by the hook

\* the callers that invoke traverse directly, each once and at any time
Callers == {"caller1", "caller2"}

(***************************************************************************)
(* Names, locations and the storage contents the model ranges over.        *)
(***************************************************************************)
Dot == "."

nWs1 == <<"ws1">>
nWs2 == <<"ws2">>
nSub == <<"sub">>
nNodeModules == <<"node_modules">>
nOut == <<"out">>
nGit == <<Dot, "git">>
nLink == <<"link">>
nA == <<"a", Dot, "lang">>
nB == <<"b", Dot, "txt">>
nC == <<"c", Dot, "lang">>
nD == <<"d", Dot, "lang">>
nHidden == <<Dot, "hidden", Dot, "lang">>
nMakefile == <<"Makefile">>

ExtLang == <<Dot, "lang">>
ExtTxt == <<Dot, "txt">>

F(n) == [name |-> n, kind |-> "file"]
D(n) == [name |-> n, kind |-> "dir"]
L(n) == [name |-> n, kind |-> "symlink"]

\* /ws1 is the tree of end-to-end scenario A, /ws2 holds one matching file.
DiskA == (<<nWs1>> :> <<F(nA), F(nB), D(nSub), D(nNodeModules)>>)
      @@ (<<nWs1, nSub>> :> <<F(nC)>>)
      @@ (<<nWs1, nNodeModules>> :> <<F(nD)>>)
      @@ (<<nWs2>> :> <<F(nC)>>)

\* Hidden entries, a symbolic link, an output directory and an empty directory.
DiskH == (<<nWs1>> :> <<F(nHidden), L(nLink), D(nGit), F(nA)>>)
      @@ (<<nWs1, nGit>> :> <<F(nC)>>)
      @@ (<<nWs2>> :> <<D(nOut), F(nMakefile), D(nSub)>>)
      @@ (<<nWs2, nOut>> :> <<F(nD)>>)
      @@ (<<nWs2, nSub>> :> << >>)

\* Directories listed before and between files, two levels deep.
DiskN == (<<nWs1>> :> <<D(nSub), F(nA)>>)
      @@ (<<nWs1, nSub>> :> <<F(nC), D(nSub), F(nD)>>)
      @@ (<<nWs1, nSub, nSub>> :> <<F(nA)>>)
      @@ (<<nWs2>> :> <<F(nB), F(nA)>>)

Disks == {DiskA, DiskH, DiskN}

\* The locations a caller starts a traversal at; <<nWs1, nSub>> lies inside <<nWs1>>
\* and does not exist on every disk.
Roots == {<<nWs1>>, <<nWs2>>, <<nWs1, nSub>>}

Registries == { <<[fileExtensions |-> <<ExtLang>>]>>,
                <<[fileExtensions |-> <<ExtLang>>], [fileExtensions |-> <<ExtTxt, ExtLang>>]>> }

SubsetsUpTo(S, n) == {X \in SUBSET S : Cardinality(X) <= n}

SeqsUpTo(S, n) == UNION {[1..k -> S] : k \in 0..n}

Range(s) == {s[i] : i \in 1..Len(s)}

RECURSIVE Flat(_)
\* Array.prototype.flat on an array of arrays.
Flat(ss) == IF ss = << >> THEN << >> ELSE Head(ss) \o Flat(Tail(ss))

(***************************************************************************)
(* NodeFileSystemProvider                                                  *)
(***************************************************************************)
\* Utils.resolvePath(folderPath, entry.name) for a dirent name, which is never
\* '.' or '..' and holds no separator: the child location.
ResolvePath(folderPath, name) == Append(folderPath, name)

\* fs.promises.readdir(folderPath, {withFileTypes: true}) succeeds
ReaddirOk(d, fl, folderPath) == folderPath \in DOMAIN d /\ folderPath \notin fl

\* ... and otherwise rejects with this error.
ReaddirError(d, folderPath) ==
    [code |-> IF folderPath \in DOMAIN d THEN "EACCES" ELSE "ENOENT", path |-> folderPath]

\* Variant: whatever is not a file is taken for a directory.
MapDirentNotFile(dirent, folderPath) ==
    [isFile |-> dirent.kind = "file",
     isDirectory |-> dirent.kind # "file",
     name |-> dirent.name,
     container |-> folderPath]

MapDirent(dirent, folderPath) ==
    [isFile |-> dirent.kind = "file",
     isDirectory |-> dirent.kind = "dir",
     name |-> dirent.name,
     container |-> folderPath]

\* getFolderNodes: every dirent is mapped, whatever its kind.
GetFolderNodes(d, folderPath) ==
    [i \in 1..Len(d[folderPath]) |-> MapDirent(d[folderPath][i], folderPath)]

(***************************************************************************)
(* The filter handed to traverse.  kind "undefined": the argument is       *)
(* omitted; kind "reject": an arbitrary pure predicate, given by the set   *)
(* of entries it answers false for; kind "includeNode": the closure        *)
(* node => this.includeNode(node, fileExtensions) of the workspace manager.*)
(***************************************************************************)
NoFilter == [kind |-> "undefined", rejected |-> {}, fileExtensions |-> << >>]

RejectFilter(R) == [kind |-> "reject", rejected |-> R, fileExtensions |-> << >>]

IncludeNodeFilter(exts) == [kind |-> "includeNode", rejected |-> {}, fileExtensions |-> exts]

\* String.prototype.startsWith for a one-character prefix
StartsWith(name, c) == Len(name) >= 1 /\ name[1] = c

LastDot(name) ==
    IF \E i \in 1..Len(name) : name[i] = Dot
    THEN CHOOSE i \in 1..Len(name) : name[i] = Dot /\ \A j \in (i+1)..Len(name) : name[j] # Dot
    ELSE 0

\* path.extname (node): from the last dot to the end; empty when there is no dot,
\* when the only dot is the first character, and for '..'.
ExtName(name) ==
    IF LastDot(name) <= 1 \/ name = <<Dot, Dot>>
    THEN << >>
    ELSE SubSeq(name, LastDot(name), Len(name))

ExcludedDirs == {nNodeModules, nOut}

\* Variant: the leading-dot rule is applied to directories only
IncludeNodeHiddenFiles(node, fileExtensions) ==
    IF node.isDirectory THEN ~StartsWith(node.name, Dot) /\ node.name \notin ExcludedDirs
    ELSE IF node.isFile THEN ExtName(node.name) \in Range(fileExtensions)
    ELSE FALSE

\* DefaultWorkspaceManager.includeNode
IncludeNode(node, fileExtensions) ==
    IF StartsWith(node.name, Dot) THEN FALSE
    ELSE IF node.isDirectory THEN node.name \notin ExcludedDirs
    ELSE IF node.isFile THEN ExtName(node.name) \in Range(fileExtensions)
    ELSE FALSE

\* filter(entry)
CallFilter(filter, entry) ==
    IF filter.kind = "includeNode"
    THEN IncludeNode(entry, filter.fileExtensions)
    ELSE entry \notin filter.rejected

\* Variant: the filter is consulted for directories only.
AcceptsDirectoriesOnly(filter, entry) ==
    filter.kind = "undefined" \/ entry.isFile \/ CallFilter(filter, entry)

\* Variant: the filter is consulted for files only, every directory is entered.
AcceptsFilesOnly(filter, entry) ==
    filter.kind = "undefined" \/ entry.isDirectory \/ CallFilter(filter, entry)

\* Variant: filter && filter(entry)
AcceptsRequiresFilter(filter, entry) == filter.kind # "undefined" /\ CallFilter(filter, entry)

\* traverseFolder: !filter || filter(entry)
Accepts(filter, entry) == filter.kind = "undefined" \/ CallFilter(filter, entry)

(***************************************************************************)
(* One traverse call.  stack holds the activations of traverseFolder, the  *)
(* innermost last: the folder, its listing once it has arrived, and the    *)
(* position of the for loop.  uris is the array the collector pushes to.   *)
(* listed logs the locations a listing was issued for, answered counts the *)
(* listings that were answered, filterLog logs the entries the filter was  *)
(* invoked on.                                                             *)
(*   pc = "listing" : the innermost activation awaits getFolderNodes       *)
(*   pc = "done"    : traverse returned uris (returned, result)            *)
(*   pc = "failed"  : traverse rejected with error                         *)
(***************************************************************************)
NoError == [code |-> "none", path |-> << >>]

Frame(folderPath) == [folderPath |-> folderPath, content |-> << >>, i |-> 1]

\* traverse up to its first suspension: the listing of root is outstanding.
NewTask(root, filter) ==
    [root |-> root, filter |-> filter, pc |-> "listing",
     stack |-> <<Frame(root)>>, uris |-> << >>,
     returned |-> FALSE, result |-> << >>, error |-> NoError,
     listed |-> <<root>>, answered |-> 0, filterLog |-> << >>]

Top(t) == t.stack[Len(t.stack)]

SetTop(t, f) == [t EXCEPT !.stack[Len(t.stack)] = f]

\* Variant: uris.unshift(uri)
CollectFirst(uris, uri) == <<uri>> \o uris

\* collector(uri): uris.push(uri)
Collect(uris, uri) == Append(uris, uri)

\* the recursive call traverseFolder(uri, ...) up to its suspension
Descend(t, uri) ==
    [t EXCEPT !.stack = Append(@, Frame(uri)),
              !.listed = Append(@, uri)]

\* the outermost traverseFolder returned: traverse returns uris
TraverseReturn(t) ==
    [t EXCEPT !.stack = << >>, !.pc = "done", !.returned = TRUE, !.result = t.uris]

LogFilter(t, entry) ==
    IF t.filter.kind = "undefined" THEN t ELSE [t EXCEPT !.filterLog = Append(@, entry)]

RECURSIVE RunLoopDirectoriesUnfiltered(_)
\* Variant: a directory is entered without asking the filter, which is asked
\* for the other entries only
RunLoopDirectoriesUnfiltered(t) ==
    LET f == Top(t) IN
    IF f.i > Len(f.content)
    THEN IF Len(t.stack) = 1 THEN TraverseReturn(t)
         ELSE RunLoopDirectoriesUnfiltered([t EXCEPT !.stack = SubSeq(t.stack, 1, Len(t.stack) - 1)])
    ELSE LET entry == f.content[f.i]
             t0 == SetTop(t, [f EXCEPT !.i = f.i + 1])
             t1 == LogFilter(t0, entry)
             uri == ResolvePath(f.folderPath, entry.name)
         IN  IF entry.isDirectory THEN Descend(t0, uri)
             ELSE IF Accepts(t.filter, entry) /\ entry.isFile
                  THEN RunLoopDirectoriesUnfiltered([t1 EXCEPT !.uris = Collect(t1.uris, uri)])
                  ELSE RunLoopDirectoriesUnfiltered(t1)

RECURSIVE RunLoop(_)
\* The for loop of traverseFolder, from the current position of the innermost
\* activation up to the next suspension.  An activation whose loop is exhausted
\* returns to the one awaiting it, which continues its own loop.
RunLoop(t) ==
    LET f == Top(t) IN
    IF f.i > Len(f.content)
    THEN IF Len(t.stack) = 1 THEN TraverseReturn(t)
         ELSE RunLoop([t EXCEPT !.stack = SubSeq(t.stack, 1, Len(t.stack) - 1)])
    ELSE LET entry == f.content[f.i]
             t1 == LogFilter(SetTop(t, [f EXCEPT !.i = f.i + 1]), entry)
             uri == ResolvePath(f.folderPath, entry.name)
         IN  IF Accepts(t.filter, entry)
             THEN IF entry.isDirectory THEN Descend(t1, uri)
                  ELSE IF entry.isFile THEN RunLoop([t1 EXCEPT !.uris = Collect(t1.uris, uri)])
                  ELSE RunLoop(t1)
             ELSE RunLoop(t1)

\* Variant: a rejected listing is caught and its folder skipped.
FailSkip(t, err) ==
    IF Len(t.stack) = 1 THEN TraverseReturn(t)
    ELSE RunLoop([t EXCEPT !.stack = SubSeq(t.stack, 1, Len(t.stack) - 1)])

\* a rejected listing: the rejection leaves every awaiting activation and
\* traverse itself
Fail(t, err) == [t EXCEPT !.stack = << >>, !.pc = "failed", !.error = err]

\* the task once its outstanding listing is answered
Answer(d, fl, t) ==
    LET f == Top(t)
        t1 == [t EXCEPT !.answered = t.answered + 1]
    IN  IF ReaddirOk(d, fl, f.folderPath)
        THEN RunLoop(SetTop(t1, [f EXCEPT !.content = GetFolderNodes(d, f.folderPath)]))
        ELSE Fail(t1, ReaddirError(d, f.folderPath))

(***************************************************************************)
(* LangiumDocuments and the documents of the hook                          *)
(***************************************************************************)
IndexOf(seq, x) == CHOOSE i \in 1..Len(seq) : seq[i] = x

\* the store after getOrCreateDocument(uri): a document is created only for a
\* location that has none
StoreAfter(store, uri) == IF uri \in Range(store) THEN store ELSE Append(store, uri)

\* the handle getOrCreateDocument(uri) returns
GetOrCreateDocument(store, uri) == [id |-> IndexOf(StoreAfter(store, uri), uri), uri |-> uri]

\* Variant: every location of line 51 gets a new document in the store
StoreAfterAllAppend(store, uris) == store \o uris

RECURSIVE StoreAfterAll(_, _)
StoreAfterAll(store, uris) ==
    IF uris = << >> THEN store ELSE StoreAfterAll(StoreAfter(store, Head(uris)), Tail(uris))

\* Variant: a document is created for every location, without a look-up in the
\* store
MapGetOrCreateFresh(store, uris) ==
    [j \in 1..Len(uris) |-> [id |-> Len(store) + j, uri |-> uris[j]]]

RECURSIVE MapGetOrCreate(_, _)
\* uris.map(uri => this.langiumDocuments.getOrCreateDocument(uri))
MapGetOrCreate(store, uris) ==
    IF uris = << >> THEN << >>
    ELSE <<GetOrCreateDocument(store, Head(uris))>>
         \o MapGetOrCreate(StoreAfter(store, Head(uris)), Tail(uris))

\* documents that are not on disk: built-in libraries an override supplies
ExtraDocs == { [id |-> 0 - 1, uri |-> <<<<"builtin">>, <<"lib", Dot, "lang">>>>],
               [id |-> 0 - 2, uri |-> <<<<"builtin">>, <<"std", Dot, "lang">>>>] }

(***************************************************************************)
(* DefaultWorkspaceManager.initializeWorkspace                             *)
(*   pc = "idle"       : not called                                        *)
(*   pc = "traversing" : awaiting Promise.all of the root traversals       *)
(*   pc = "hook"       : awaiting loadAdditionalDocuments                  *)
(*   pc = "building"   : awaiting documentBuilder.build                    *)
(*   pc = "done"       : resolved                                          *)
(*   pc = "failed"     : rejected with error                               *)
(* all is the Promise.all of line 50: its state, the values array, the     *)
(* count of elements not yet fulfilled and the rejection reason; settled   *)
(* logs the order in which the traversals settled.  uris is the flattened  *)
(* array of line 50, documents the array of line 51, hookLog the log of    *)
(* the documents the hook handed to the collector.                         *)
(***************************************************************************)
WorkspaceFolders == {[uri |-> r] : r \in Roots}

WmIdle ==
    [pc |-> "idle", folders |-> << >>, fileExtensions |-> << >>,
     all |-> [state |-> "pending", values |-> << >>, remaining |-> 0, reason |-> NoError,
              settled |-> << >>],
     uris |-> << >>, documents |-> << >>, hookInvoked |-> FALSE, hookLog |-> << >>,
     error |-> NoError]

\* Variant: only the first registered language is asked.
FileExtensionsOfFirst(reg) == IF reg = << >> THEN << >> ELSE reg[1].fileExtensions

\* this.serviceRegistry.all.flatMap(e => e.LanguageMetaData.fileExtensions)
FileExtensions(reg) == Flat([i \in 1..Len(reg) |-> reg[i].fileExtensions])

\* getRootFolder: URI.parse(workspaceFolder.uri)
GetRootFolder(wf) == wf.uri

\* Promise.all over n promises: an empty array is fulfilled at once
NewPromiseAll(n) ==
    [state |-> IF n = 0 THEN "fulfilled" ELSE "pending",
     values |-> [i \in 1..n |-> << >>], remaining |-> n, reason |-> NoError,
     settled |-> << >>]

\* Variant: Promise.allSettled, a rejection counts as an empty result.
PromiseAllReactSettled(all, i, t) ==
    [all EXCEPT !.settled = Append(all.settled, i),
                !.values[i] = t.result,
                !.remaining = all.remaining - 1,
                !.state = IF all.state = "pending" /\ all.remaining = 1
                          THEN "fulfilled" ELSE all.state]

\* Variant: Promise.race, the first traversal to settle settles the whole.
PromiseAllReactRace(all, i, t) ==
    IF t.pc = "failed"
    THEN [all EXCEPT !.settled = Append(all.settled, i),
                     !.state = IF all.state = "pending" THEN "rejected" ELSE all.state,
                     !.reason = IF all.state = "pending" THEN t.error ELSE all.reason]
    ELSE [all EXCEPT !.settled = Append(all.settled, i),
                     !.values[i] = t.result,
                     !.remaining = all.remaining - 1,
                     !.state = IF all.state = "pending" THEN "fulfilled" ELSE all.state]

\* Variant: the values are kept in the order the traversals settle.
PromiseAllReactArrival(all, i, t) ==
    IF t.pc = "failed"
    THEN [all EXCEPT !.settled = Append(all.settled, i),
                     !.state = IF all.state = "pending" THEN "rejected" ELSE all.state,
                     !.reason = IF all.state = "pending" THEN t.error ELSE all.reason]
    ELSE [all EXCEPT !.settled = Append(all.settled, i),
                     !.values[Len(all.values) - all.remaining + 1] = t.result,
                     !.remaining = all.remaining - 1,
                     !.state = IF all.state = "pending" /\ all.remaining = 1
                               THEN "fulfilled" ELSE all.state]

\* the reaction of Promise.all to its i-th promise, which settled as task t
PromiseAllReact(all, i, t) ==
    IF t.pc = "failed"
    THEN [all EXCEPT !.settled = Append(all.settled, i),
                     !.state = IF all.state = "pending" THEN "rejected" ELSE all.state,
                     !.reason = IF all.state = "pending" THEN t.error ELSE all.reason]
    ELSE [all EXCEPT !.settled = Append(all.settled, i),
                     !.values[i] = t.result,
                     !.remaining = all.remaining - 1,
                     !.state = IF all.state = "pending" /\ all.remaining = 1
                               THEN "fulfilled" ELSE all.state]

\* lines 50-53 after the await, up to the await of the hook
LoadDocuments(w, store) ==
    [w EXCEPT !.pc = "hook",
              !.uris = Flat(w.all.values),
              !.documents = MapGetOrCreate(store, Flat(w.all.values)),
              !.hookInvoked = TRUE]

\* Variant: the await of line 50 is wrapped in a try/catch that goes on with
\* the locations found so far
ContinueBestEffort(w, store) ==
    IF w.pc # "traversing" \/ w.all.state = "pending" THEN w
    ELSE LoadDocuments(w, store)

\* Variant: Promise.allSettled followed by a throw of the first rejection
ContinueWhenAllSettled(w, store) ==
    IF w.pc # "traversing" \/ Len(w.all.settled) < Len(w.all.values) THEN w
    ELSE IF w.all.state = "fulfilled" THEN LoadDocuments(w, store)
    ELSE [w EXCEPT !.pc = "failed", !.error = w.all.reason]

\* initializeWorkspace once Promise.all is settled: it continues with line 51, or
\* the await of line 50 throws
Continue(w, store) ==
    IF w.pc # "traversing" \/ w.all.state = "pending" THEN w
    ELSE IF w.all.state = "fulfilled" THEN LoadDocuments(w, store)
    ELSE [w EXCEPT !.pc = "failed", !.error = w.all.reason]

\* a traversal of initializeWorkspace settled: Promise.all reacts
Settle(w, store, i, t) ==
    IF t.pc = "listing" THEN w
    ELSE Continue([w EXCEPT !.all = PromiseAllReact(w.all, i, t)], store)

\* the document store once initializeWorkspace went from w0 to w
StoreAfterStep(w0, w, store) ==
    IF w0.pc # "hook" /\ w.pc = "hook" THEN StoreAfterAll(store, w.uris) ELSE store

\* Variant: documents.unshift(document)
CollectDocumentFirst(documents, document) == <<document>> \o documents

\* the collector of line 52: documents.push(document)
CollectDocument(documents, document) == Append(documents, document)

\* lines 48-50: every root traversal is started, in folder order
InitializeWorkspace(folders) ==
    /\ wm.pc = "idle"
    /\ tasks' = [i \in 1..Len(folders) |->
                    NewTask(GetRootFolder(folders[i]), IncludeNodeFilter(FileExtensions(registry)))]
    /\ LET w == Continue([wm EXCEPT !.pc = "traversing",
                                    !.folders = folders,
                                    !.fileExtensions = FileExtensions(registry),
                                    !.all = NewPromiseAll(Len(folders))], docStore)
       IN  /\ wm' = w
           /\ docStore' = StoreAfterStep(wm, w, docStore)
    /\ UNCHANGED <<disk, failing, registry, buildCalls, wm2, tasks2>>

\* the outstanding listing of a traversal of initializeWorkspace is answered
ListingAnswered(k) ==
    /\ wm.pc # "idle"
    /\ k \in 1..Len(tasks)
    /\ tasks[k].pc = "listing"
    /\ LET t == Answer(disk, failing, tasks[k])
           w == Settle(wm, docStore, k, t)
       IN  /\ tasks' = [tasks EXCEPT ![k] = t]
           /\ wm' = w
           /\ docStore' = StoreAfterStep(wm, w, docStore)
    /\ UNCHANGED <<disk, failing, registry, buildCalls, wm2, tasks2>>

\* an override of loadAdditionalDocuments calls collector(document)
HookPush(document) ==
    /\ wm.pc = "hook"
    /\ Len(wm.hookLog) < MaxHookDocs
    /\ wm' = [wm EXCEPT !.documents = CollectDocument(wm.documents, document),
                        !.hookLog = Append(wm.hookLog, document)]
    /\ UNCHANGED <<disk, failing, tasks, registry, docStore, buildCalls, wm2, tasks2>>

\* the hook's promise is fulfilled: line 54 up to the await
Build ==
    /\ wm.pc = "hook"
    /\ buildCalls' = Append(buildCalls, wm.documents)
    /\ wm' = [wm EXCEPT !.pc = "building"]
    /\ UNCHANGED <<disk, failing, tasks, registry, docStore, wm2, tasks2>>

\* build is fulfilled: initializeWorkspace resolves
BuildResolve ==
    /\ wm.pc = "building"
    /\ wm' = [wm EXCEPT !.pc = "done"]
    /\ UNCHANGED <<disk, failing, tasks, registry, docStore, buildCalls, wm2, tasks2>>

(***************************************************************************)
(* A second call of initializeWorkspace on the same workspace manager: the *)
(* client calls again, while the first call is under way or after it.  The *)
(* activation has its own locals (folders, uris, documents, the Promise.all *)
(* and the traversals); the services of lines 35-38 are those of the first.*)
(***************************************************************************)
\* lines 48-50 of the second call
InitializeWorkspaceAgain(folders) ==
    /\ wm.pc # "idle"
    /\ wm2.pc = "idle"
    /\ tasks2' = [i \in 1..Len(folders) |->
                     NewTask(GetRootFolder(folders[i]), IncludeNodeFilter(FileExtensions(registry)))]
    /\ LET w == Continue([wm2 EXCEPT !.pc = "traversing",
                                     !.folders = folders,
                                     !.fileExtensions = FileExtensions(registry),
                                     !.all = NewPromiseAll(Len(folders))], docStore)
       IN  /\ wm2' = w
           /\ docStore' = StoreAfterStep(wm2, w, docStore)
    /\ UNCHANGED <<disk, failing, registry, buildCalls, wm, tasks>>

\* the outstanding listing of a traversal of the second call is answered
ListingAnsweredAgain(k) ==
    /\ wm2.pc # "idle"
    /\ k \in 1..Len(tasks2)
    /\ tasks2[k].pc = "listing"
    /\ LET t == Answer(disk, failing, tasks2[k])
           w == Settle(wm2, docStore, k, t)
       IN  /\ tasks2' = [tasks2 EXCEPT ![k] = t]
           /\ wm2' = w
           /\ docStore' = StoreAfterStep(wm2, w, docStore)
    /\ UNCHANGED <<disk, failing, registry, buildCalls, wm, tasks>>

\* the hook of the second call calls collector(document)
HookPushAgain(document) ==
    /\ wm2.pc = "hook"
    /\ Len(wm2.hookLog) < MaxHookDocs
    /\ wm2' = [wm2 EXCEPT !.documents = CollectDocument(wm2.documents, document),
                          !.hookLog = Append(wm2.hookLog, document)]
    /\ UNCHANGED <<disk, failing, registry, docStore, buildCalls, wm, tasks, tasks2>>

\* the hook's promise of the second call is fulfilled: line 54 up to the await
BuildAgain ==
    /\ wm2.pc = "hook"
    /\ buildCalls' = Append(buildCalls, wm2.documents)
    /\ wm2' = [wm2 EXCEPT !.pc = "building"]
    /\ UNCHANGED <<disk, failing, registry, docStore, wm, tasks, tasks2>>

\* build is fulfilled: the second call resolves
BuildResolveAgain ==
    /\ wm2.pc = "building"
    /\ wm2' = [wm2 EXCEPT !.pc = "done"]
    /\ UNCHANGED <<disk, failing, registry, docStore, buildCalls, wm, tasks, tasks2>>

(***************************************************************************)
(* A caller of the provider                                                *)
(***************************************************************************)
\* a caller invokes traverse(root, filter)
Traverse(root, filter) ==
    /\ wm.pc = "idle"
    /\ Len(tasks) < Cardinality(Callers)
    /\ tasks' = Append(tasks, NewTask(root, filter))
    /\ UNCHANGED <<disk, failing, registry, wm, docStore, buildCalls, wm2, tasks2>>

\* the outstanding listing of a caller's traversal is answered
ReaddirAnswered(k) ==
    /\ wm.pc = "idle"
    /\ k \in 1..Len(tasks)
    /\ tasks[k].pc = "listing"
    /\ tasks' = [tasks EXCEPT ![k] = Answer(disk, failing, tasks[k])]
    /\ UNCHANGED <<disk, failing, registry, wm, docStore, buildCalls, wm2, tasks2>>

(***************************************************************************)
(* Specifications                                                          *)
(***************************************************************************)
Dirs(d) == DOMAIN d

IsPrefix(p, q) == Len(p) <= Len(q) /\ SubSeq(q, 1, Len(p)) = p

\* every entry a listing at or below root can yield
EntriesBelow(d, root) ==
    UNION {Range(GetFolderNodes(d, p)) : p \in {q \in DOMAIN d : IsPrefix(root, q)}}

\* the filters a caller passes: none, or a predicate that rejects some entries
Filters(d, root) ==
    {NoFilter} \cup {RejectFilter(R) : R \in SubsetsUpTo(EntriesBelow(d, root), MaxRejected)}

Storage ==
    /\ disk \in Disks
    /\ failing \in SubsetsUpTo(Dirs(disk), MaxFailing)
    /\ tasks = << >>
    /\ wm = WmIdle
    /\ docStore = << >>
    /\ buildCalls = << >>
    /\ wm2 = WmIdle
    /\ tasks2 = << >>

Init == Storage /\ registry \in Registries

\* the workspace manager: initializeWorkspace is the only entry point
Next ==
    \/ \E folders \in SeqsUpTo(WorkspaceFolders, MaxFolders) : InitializeWorkspace(folders)
    \/ \E k \in 1..Len(tasks) : ListingAnswered(k)
    \/ \E document \in ExtraDocs : HookPush(document)
    \/ Build
    \/ BuildResolve

Spec == Init /\ [][Next]_vars

\* the k-th traversal of the call has a listing outstanding: ListingAnswered(k)
\* is enabled, and it changes the traversal whenever it is taken
ListingOutstanding(k) == wm.pc # "idle" /\ k \in 1..Len(tasks) /\ tasks[k].pc = "listing"

\* The workspace manager when every listing that is issued is answered, and
\* the hook and the build step, which the call awaits, complete.  The first
\* conjunct is WF_vars(ListingAnswered(k)) with ENABLED written out.
FairSpec ==
    /\ Spec
    /\ \A k \in 1..MaxFolders :
          \/ []<>(~ListingOutstanding(k))
          \/ []<><<ListingAnswered(k)>>_vars
    /\ WF_vars(Build)
    /\ WF_vars(BuildResolve)

\* the file system provider on its own: callers invoke traverse with any filter
NextTraverse ==
    \/ \E root \in Roots : \E filter \in Filters(disk, root) : Traverse(root, filter)
    \/ \E k \in 1..Len(tasks) : ReaddirAnswered(k)

\* no language needs to be registered to use the provider
InitTraverse == Storage /\ registry = << >>

TraverseSpec == InitTraverse /\ [][NextTraverse]_vars

\* the folder lists of the two calls: one folder, two folders in either order,
\* and a folder together with one that lies inside it
TwoCallFolders ==
    { <<[uri |-> <<nWs1>>]>>,
      <<[uri |-> <<nWs2>>]>>,
      <<[uri |-> <<nWs1>>], [uri |-> <<nWs2>>]>>,
      <<[uri |-> <<nWs2>>], [uri |-> <<nWs1>>]>>,
      <<[uri |-> <<nWs1, nSub>>], [uri |-> <<nWs1>>]>> }

\* the workspace manager when the client calls initializeWorkspace a second
\* time, at any moment after the first call
NextTwoCalls ==
    \/ \E folders \in TwoCallFolders : InitializeWorkspace(folders)
    \/ \E k \in 1..Len(tasks) : ListingAnswered(k)
    \/ \E document \in ExtraDocs : HookPush(document)
    \/ Build
    \/ BuildResolve
    \/ \E folders \in TwoCallFolders : InitializeWorkspaceAgain(folders)
    \/ \E k \in 1..Len(tasks2) : ListingAnsweredAgain(k)
    \/ \E document \in ExtraDocs : HookPushAgain(document)
    \/ BuildAgain
    \/ BuildResolveAgain

\* what a second call adds does not depend on the languages: one is registered
InitTwoCalls == Storage /\ registry = <<[fileExtensions |-> <<ExtLang>>]>>

TwoCallSpec == InitTwoCalls /\ [][NextTwoCalls]_vars

(***************************************************************************)
(* The storage seen from outside the provider                              *)
(***************************************************************************)
Parent(loc) == SubSeq(loc, 1, Len(loc) - 1)

Last(loc) == loc[Len(loc)]

\* every location with a directory entry on the disk
Locations(d) == UNION {{Append(p, d[p][i].name) : i \in 1..Len(d[p])} : p \in DOMAIN d}

KindAt(d, loc) ==
    LET ds == d[Parent(loc)] IN ds[CHOOSE i \in 1..Len(ds) : ds[i].name = Last(loc)].kind

\* the entry a filter is shown for the location
EntryAt(d, loc) ==
    [isFile |-> KindAt(d, loc) = "file", isDirectory |-> KindAt(d, loc) = "dir",
     name |-> Last(loc), container |-> Parent(loc)]

\* the locations strictly below root, and those from below root down to loc
Below(d, root) == {loc \in Locations(d) : IsPrefix(root, loc) /\ Len(loc) > Len(root)}

PathFrom(root, loc) == {SubSeq(loc, 1, n) : n \in (Len(root) + 1)..Len(loc)}

\* what a caller's filter answers: an omitted filter rejects nothing
Passes(filter, entry) == entry \notin filter.rejected

\* the files below root that the filter lets through together with every
\* directory between root and them
ExpectedFiles(d, root, filter) ==
    {loc \in Below(d, root) :
        /\ KindAt(d, loc) = "file"
        /\ \A q \in PathFrom(root, loc) : Passes(filter, EntryAt(d, q))}

RECURSIVE PreOrder(_, _, _, _)
\* the depth-first pre-order sequence of the accepted files of folder, from its
\* i-th dirent on, in listing order
PreOrder(d, filter, folder, i) ==
    IF i > Len(d[folder]) THEN << >>
    ELSE LET loc == Append(folder, d[folder][i].name)
             kind == d[folder][i].kind
             here == IF ~Passes(filter, EntryAt(d, loc)) THEN << >>
                     ELSE IF kind = "dir" THEN PreOrder(d, filter, loc, 1)
                     ELSE IF kind = "file" THEN <<loc>>
                     ELSE << >>
         IN  here \o PreOrder(d, filter, folder, i + 1)

TaskIds == 1..Len(tasks)

(***************************************************************************)
(* Properties of NodeFileSystemProvider.traverse (TraverseSpec)            *)
(***************************************************************************)
\* C1: a traverse call that returns, returns exactly the locations of the files
\* below root whose entry, and the entry of every directory between root and
\* them, the filter accepts; each once, and never the location of a directory.
C1_TraverseReturnsAcceptedFiles ==
    \A k \in TaskIds :
        tasks[k].returned =>
            /\ Range(tasks[k].result) = ExpectedFiles(disk, tasks[k].root, tasks[k].filter)
            /\ Cardinality(Range(tasks[k].result)) = Len(tasks[k].result)
            /\ Range(tasks[k].result) \cap DOMAIN disk = {}

\* C1 witness: a returned call whose filter rejects a file of an accepted
\* subdirectory, one of whose other files is in the result.
C1_Witness ==
    \E k \in TaskIds :
        /\ tasks[k].returned
        /\ \E e \in tasks[k].filter.rejected :
              /\ e.isFile
              /\ Len(e.container) > Len(tasks[k].root)
              /\ \E u \in Range(tasks[k].result) : Parent(u) = e.container

\* the directories at or below root whose entry the filter of the call rejects
RejectedDirs(t) ==
    {loc \in Below(disk, t.root) :
        KindAt(disk, loc) = "dir" /\ ~Passes(t.filter, EntryAt(disk, loc))}

\* C2: at no time has a traverse call issued a listing for a directory whose
\* entry its filter rejects, or for anything beneath it; no file beneath it is
\* collected or returned, and no listing beneath it is what fails the call.
C2_RejectedDirectoryIsPruned ==
    \A k \in TaskIds :
        \A q \in RejectedDirs(tasks[k]) :
            /\ \A i \in 1..Len(tasks[k].listed) : ~IsPrefix(q, tasks[k].listed[i])
            /\ \A u \in Range(tasks[k].uris) \cup Range(tasks[k].result) : ~IsPrefix(q, u)
            /\ tasks[k].pc = "failed" => ~IsPrefix(q, tasks[k].error.path)

\* C2 witness: a call returned although the listing of a directory that its
\* filter rejects, and that holds a file, is refused.
C2_Witness ==
    \E k \in TaskIds :
        /\ tasks[k].returned
        /\ \E q \in RejectedDirs(tasks[k]) : q \in failing /\ disk[q] # << >>

\* C3: the sequence a traverse call returns is the depth-first pre-order
\* sequence given by the order of the listings, whatever other traversals run
\* at the same time; a call never has more than one listing outstanding, and
\* has one exactly while it is suspended.
C3_ResultIsPreOrder ==
    \A k \in TaskIds :
        /\ tasks[k].returned =>
              tasks[k].result = PreOrder(disk, tasks[k].filter, tasks[k].root, 1)
        /\ Len(tasks[k].listed) - tasks[k].answered \in {0, 1}
        /\ tasks[k].pc = "listing" <=> Len(tasks[k].listed) - tasks[k].answered = 1

\* C3 witness: the second call returned files of nested directories, in an
\* order that leaves a subdirectory before a file of its parent, while the
\* first call, started earlier, is still suspended below its root.
C3_Witness ==
    /\ Len(tasks) = 2
    /\ tasks[2].returned
    /\ \E i, j \in 1..Len(tasks[2].result) :
          i < j /\ Len(tasks[2].result[i]) > Len(tasks[2].result[j])
    /\ tasks[1].pc = "listing"
    /\ tasks[1].answered >= 1

\* a listing the call issued was answered with a failure
ListingFailed(t, i) == i <= t.answered /\ ~ReaddirOk(disk, failing, t.listed[i])

C4_State ==
    \A k \in TaskIds :
        \A i \in 1..Len(tasks[k].listed) :
            ListingFailed(tasks[k], i) =>
                /\ tasks[k].pc = "failed"
                /\ tasks[k].error = ReaddirError(disk, tasks[k].listed[i])
                /\ ~tasks[k].returned
                /\ tasks[k].result = << >>
                /\ i = Len(tasks[k].listed)

C4_Step == \A k \in TaskIds : tasks[k].pc = "failed" => tasks'[k] = tasks[k]

\* C4: once a listing issued by a traverse call has failed, the call has failed
\* with the error of that listing, has returned no list, the failed listing is
\* the last one it issued, and nothing about the call changes any more.
C4_ListingFailureFailsTraverse == [](C4_State) /\ [][C4_Step]_vars

\* C4 witness: a call failed on the listing of a subdirectory after it had
\* collected a file.
C4_Witness ==
    \E k \in TaskIds :
        /\ tasks[k].pc = "failed"
        /\ tasks[k].uris # << >>
        /\ Len(tasks[k].listed) >= 2

(***************************************************************************)
(* Properties of DefaultWorkspaceManager.initializeWorkspace (Spec)        *)
(***************************************************************************)
RECURSIVE Collected(_)
\* the locations the traversals of the first n folders returned, in folder order
Collected(n) == IF n = 0 THEN << >> ELSE Collected(n - 1) \o tasks[n].result

AllCollected == Collected(Len(tasks))

Uris(docs) == [j \in 1..Len(docs) |-> docs[j].uri]

FailedTasks == {k \in TaskIds : tasks[k].pc = "failed"}

\* C5 as stated: whenever a listing of a root traversal has failed,
\* initializeWorkspace is rejected with the error of that listing and build was
\* not invoked.
C5_RejectsWithThatListingsError ==
    \A k \in FailedTasks :
        /\ wm.pc = "failed"
        /\ wm.error = tasks[k].error
        /\ buildCalls = << >>

C5_State ==
    FailedTasks # {} =>
        /\ wm.pc = "failed"
        /\ \E k \in FailedTasks : wm.error = tasks[k].error
        /\ buildCalls = << >>

C5_Step ==
    /\ \A k \in TaskIds :
          (FailedTasks = {} /\ tasks'[k].pc = "failed") =>
              (wm'.pc = "failed" /\ wm'.error = tasks'[k].error)
    /\ wm.pc = "failed" =>
          (wm'.pc = "failed" /\ wm'.error = wm.error /\ buildCalls' = << >>)

\* C5 (amended): whenever a listing of a root traversal has failed,
\* initializeWorkspace is rejected and build was not invoked; the error is that
\* of the first listing to fail, set in the step in which it fails, and later
\* failures of other traversals change neither it nor the outcome.
C5_RejectsWithFirstListingError == [](C5_State) /\ [][C5_Step]_vars

\* C5 witness: two root traversals failed with different errors and the call
\* carries the error of the second folder's traversal.
C5_Witness ==
    /\ wm.pc = "failed"
    /\ FailedTasks = {1, 2}
    /\ tasks[1].error # tasks[2].error
    /\ wm.error = tasks[2].error

\* C6: build is invoked at most once, exactly once in a call that succeeded, only
\* when every root traversal has returned, and with the final list: as many
\* documents as collected locations and hook documents, one for each of them.
C6_BuildOnceWithCompleteList ==
    /\ Len(buildCalls) <= 1
    /\ wm.pc = "done" => Len(buildCalls) = 1
    /\ buildCalls # << >> =>
          /\ wm.pc \in {"building", "done"}
          /\ \A k \in TaskIds : tasks[k].returned
          /\ buildCalls[1] = wm.documents
          /\ Len(buildCalls[1]) = Len(AllCollected) + Len(wm.hookLog)
          /\ \A loc \in Range(AllCollected) :
                \E j \in 1..Len(buildCalls[1]) :
                    /\ buildCalls[1][j].uri = loc
                    /\ buildCalls[1][j].id \in 1..Len(docStore)
                    /\ docStore[buildCalls[1][j].id] = loc
          /\ Range(wm.hookLog) \subseteq Range(buildCalls[1])

\* C6 witness: a call with two folders succeeded; both traversals collected
\* files and the hook contributed a document.
C6_Witness ==
    /\ wm.pc = "done"
    /\ Len(tasks) = 2
    /\ tasks[1].result # << >>
    /\ tasks[2].result # << >>
    /\ tasks[1].root # tasks[2].root
    /\ wm.hookLog # << >>

\* C7: from the moment initializeWorkspace is called, the traversal of every
\* folder has issued the listing of its root; and the list given to build holds
\* the documents of the folders in folder order, those of one folder in the
\* order its traversal returned them, whatever the order of completion.
C7_RootOrderPreserved ==
    /\ wm.pc # "idle" =>
          /\ Len(tasks) = Len(wm.folders)
          /\ \A i \in TaskIds :
                /\ tasks[i].root = wm.folders[i].uri
                /\ Len(tasks[i].listed) >= 1
                /\ tasks[i].listed[1] = tasks[i].root
    /\ buildCalls # << >> =>
          \A i \in TaskIds :
              \A n \in 1..Len(tasks[i].result) :
                  /\ Len(Collected(i - 1)) + n <= Len(buildCalls[1])
                  /\ buildCalls[1][Len(Collected(i - 1)) + n].uri = tasks[i].result[n]

\* C7 witness: build was invoked after the traversal of the second folder
\* completed before that of the first, both having collected files.
C7_Witness ==
    /\ buildCalls # << >>
    /\ wm.all.settled = <<2, 1>>
    /\ tasks[1].result # << >>
    /\ tasks[2].result # << >>
    /\ tasks[1].root # tasks[2].root

\* C8: the hook is invoked only when every root traversal has returned, it has
\* contributed whatever it contributes before build is invoked, and the list
\* given to build is the documents of the collected locations followed by the
\* documents of the hook.
C8_HookAfterTraversalBeforeBuild ==
    /\ wm.hookInvoked => \A k \in TaskIds : tasks[k].returned
    /\ wm.hookLog # << >> => wm.hookInvoked
    /\ buildCalls # << >> =>
          /\ wm.hookInvoked
          /\ Len(buildCalls[1]) = Len(AllCollected) + Len(wm.hookLog)
          /\ Uris(SubSeq(buildCalls[1], 1, Len(AllCollected))) = AllCollected
          /\ SubSeq(buildCalls[1], Len(AllCollected) + 1, Len(buildCalls[1])) = wm.hookLog

\* C8 witness: build was invoked with collected locations and a hook document.
C8_Witness ==
    /\ buildCalls # << >>
    /\ AllCollected # << >>
    /\ wm.hookLog # << >>

(***************************************************************************)
(* Properties of the default filter and of the listings (Spec)             *)
(***************************************************************************)
\* the union of the file extensions of all registered languages
RecognizedExtensions == UNION {Range(registry[i].fileExtensions) : i \in 1..Len(registry)}

EndsWith(name, suffix) ==
    Len(suffix) <= Len(name) /\ SubSeq(name, Len(name) - Len(suffix) + 1, Len(name)) = suffix

HasRecognizedSuffix(name) == \E ext \in RecognizedExtensions : EndsWith(name, ext)

Hidden(name) == name[1] = Dot

\* the location lies in no hidden or excluded directory below root
InIncludedDirectories(root, loc) ==
    \A q \in PathFrom(root, Parent(loc)) :
        ~Hidden(Last(q)) /\ Last(q) \notin {nNodeModules, nOut}

\* the rule of the default filter, for an entry of the storage
IncludeRule(e) ==
    IF e.isDirectory THEN ~Hidden(e.name) /\ e.name \notin {nNodeModules, nOut}
    ELSE IF e.isFile THEN ~Hidden(e.name) /\ ExtName(e.name) \in RecognizedExtensions
    ELSE FALSE

\* C9 as stated: a root traversal of initializeWorkspace that returns, returns
\* exactly the files with a recognized suffix that lie in no hidden or excluded
\* directory below the root.
C9_CollectsFilesWithRecognizedSuffix ==
    \A k \in TaskIds :
        tasks[k].returned =>
            Range(tasks[k].result) =
                {loc \in Below(disk, tasks[k].root) :
                    /\ KindAt(disk, loc) = "file"
                    /\ HasRecognizedSuffix(Last(loc))
                    /\ InIncludedDirectories(tasks[k].root, loc)}

\* C9 (amended): includeNode answers by the rule above for every entry it is
\* shown, and a root traversal that returns, returns exactly the files whose
\* name does not start with '.' and has a recognized extension, and that lie in
\* no hidden or excluded directory below the root; for the tree of scenario A
\* with only '.lang' recognized these are /ws1/a.lang and /ws1/sub/c.lang.
C9_CollectsVisibleFilesWithRecognizedExtension ==
    \A k \in TaskIds :
        /\ \A e \in Range(tasks[k].filterLog) :
              IncludeNode(e, tasks[k].filter.fileExtensions) <=> IncludeRule(e)
        /\ tasks[k].returned =>
              Range(tasks[k].result) =
                  {loc \in Below(disk, tasks[k].root) :
                      /\ KindAt(disk, loc) = "file"
                      /\ ~Hidden(Last(loc))
                      /\ ExtName(Last(loc)) \in RecognizedExtensions
                      /\ InIncludedDirectories(tasks[k].root, loc)}
        /\ (/\ tasks[k].returned
            /\ disk = DiskA
            /\ tasks[k].root = <<nWs1>>
            /\ RecognizedExtensions = {ExtLang}) =>
              Range(tasks[k].result) = {<<nWs1, nA>>, <<nWs1, nSub, nC>>}

\* C9 witness: the traversal of a root that holds a hidden file with a
\* recognized suffix returned, without that file and with a visible one.
C9_Witness ==
    \E k \in TaskIds :
        /\ tasks[k].returned
        /\ tasks[k].result # << >>
        /\ \E loc \in Below(disk, tasks[k].root) :
              /\ KindAt(disk, loc) = "file"
              /\ Hidden(Last(loc))
              /\ HasRecognizedSuffix(Last(loc))
              /\ loc \notin Range(tasks[k].result)

\* the entries of the listings a traversal holds, and those shown to its filter
EntriesOf(t) ==
    UNION {Range(t.stack[n].content) : n \in 1..Len(t.stack)} \cup Range(t.filterLog)

\* C10 as stated: every entry of a listing has exactly one of isFile and
\* isDirectory true and the listed location as its container.
C10_ExactlyOneKind ==
    \A k \in TaskIds :
        /\ \A n \in 1..Len(tasks[k].stack) :
              \A e \in Range(tasks[k].stack[n].content) :
                  e.container = tasks[k].stack[n].folderPath
        /\ \A e \in EntriesOf(tasks[k]) :
              /\ e.isFile # e.isDirectory
              /\ e.container \in Range(tasks[k].listed)

\* C10 (amended): every entry of a listing has the listed location as its
\* container and at most one of isFile and isDirectory true, as the kind of the
\* child says; a child that is neither a file nor a directory is listed with
\* both false and shown to the filter like any other, and its location is
\* neither collected nor listed.
C10_AtMostOneKind ==
    \A k \in TaskIds :
        /\ \A n \in 1..Len(tasks[k].stack) :
              LET f == tasks[k].stack[n] IN
              /\ f.content # << >> => Len(f.content) = Len(disk[f.folderPath])
              /\ \A j \in 1..Len(f.content) :
                    /\ f.content[j].container = f.folderPath
                    /\ f.content[j].name = disk[f.folderPath][j].name
        /\ \A e \in EntriesOf(tasks[k]) :
              LET loc == Append(e.container, e.name) IN
              /\ e.container \in Range(tasks[k].listed)
              /\ ~(e.isFile /\ e.isDirectory)
              /\ e.isFile <=> KindAt(disk, loc) = "file"
              /\ e.isDirectory <=> KindAt(disk, loc) = "dir"
              /\ (~e.isFile /\ ~e.isDirectory) =>
                    loc \notin Range(tasks[k].uris) \cup Range(tasks[k].listed)
        /\ tasks[k].returned =>
              \A p \in Range(tasks[k].listed) :
                  \A j \in 1..Len(disk[p]) :
                      \E e \in Range(tasks[k].filterLog) :
                          e.container = p /\ e.name = disk[p][j].name

\* C10 witness: a traversal returned after its filter was shown an entry that
\* is neither a file nor a directory.
C10_Witness ==
    \E k \in TaskIds :
        /\ tasks[k].returned
        /\ \E e \in Range(tasks[k].filterLog) : ~e.isFile /\ ~e.isDirectory

(***************************************************************************)
(* The phases of initializeWorkspace (Spec)                                *)
(***************************************************************************)
\* the position of a phase in the order of lines 48-54; a call that fails
\* leaves the order at the traversal
PhaseRank(pc) ==
    CASE pc = "idle" -> 0
      [] pc = "traversing" -> 1
      [] pc = "failed" -> 2
      [] pc = "hook" -> 2
      [] pc = "building" -> 3
      [] pc = "done" -> 4

\* some root traversal of the call has not returned: it is outstanding or failed
TraversalPending == \E k \in TaskIds : ~tasks[k].returned

C11_State ==
    /\ TraversalPending =>
          /\ wm.pc \in {"traversing", "failed"}
          /\ docStore = << >>
          /\ wm.documents = << >>
          /\ ~wm.hookInvoked
          /\ wm.hookLog = << >>
          /\ buildCalls = << >>
    /\ wm.pc = "failed" =>
          /\ FailedTasks # {}
          /\ docStore = << >>
          /\ buildCalls = << >>
    /\ wm.pc \in {"hook", "building", "done"} <=> wm.hookInvoked
    /\ wm.pc \in {"building", "done"} <=> buildCalls # << >>

C11_Step ==
    /\ PhaseRank(wm'.pc) >= PhaseRank(wm.pc)
    /\ wm.pc # "idle" => PhaseRank(wm'.pc) <= PhaseRank(wm.pc) + 1
    /\ (wm.pc = "idle" /\ wm'.pc # "idle") =>
          \/ wm'.pc = "traversing"
          \/ wm'.pc = "hook" /\ wm'.folders = << >>
    /\ wm.pc \in {"failed", "done"} => wm'.pc = wm.pc
    /\ wm'.pc = "failed" => wm.pc \in {"traversing", "failed"}
    /\ docStore' # docStore =>
          /\ wm.pc = "traversing" /\ wm'.pc = "hook"
          /\ \A k \in 1..Len(tasks') : tasks'[k].returned

\* C11: a call moves through traversing, loading and hook, building, done in
\* that order, one phase at a time and never back, or from traversing to failed
\* and no further (a call without folders has nothing to wait for and is in
\* the hook phase at once); the document store is written only in the step that ends
\* the traversal phase with every root traversal returned; and while a root
\* traversal is outstanding or has failed no document was created, the hook was
\* not invoked and build was not invoked, so that a failed call leaves the
\* document store as it was.
C11_PhasesInOrder == [](C11_State) /\ [][C11_Step]_vars

\* C11 witness: the call failed on the listing of one folder after the
\* traversal of the other folder had returned files, and the store is empty.
C11_Witness ==
    /\ wm.pc = "failed"
    /\ \E k \in TaskIds : tasks[k].returned /\ tasks[k].result # << >>
    /\ docStore = << >>

(***************************************************************************)
(* Two calls of initializeWorkspace (TwoCallSpec)                          *)
(***************************************************************************)
\* the rule of the default filter when the languages of reg are registered
IncludeRuleOf(reg, e) ==
    LET exts == UNION {Range(reg[i].fileExtensions) : i \in 1..Len(reg)} IN
    IF e.isDirectory THEN ~Hidden(e.name) /\ e.name \notin {nNodeModules, nOut}
    ELSE IF e.isFile THEN ~Hidden(e.name) /\ ExtName(e.name) \in exts
    ELSE FALSE

\* the directories a traversal of root with the default filter lists on
\* storage d when no listing fails
SoloListed(d, reg, root) ==
    {root} \cup {loc \in Below(d, root) :
                    /\ KindAt(d, loc) = "dir"
                    /\ \A q \in PathFrom(root, loc) : IncludeRuleOf(reg, EntryAt(d, q))}

RECURSIVE SoloUris(_, _, _, _)
\* what a traversal of folder with the default filter returns on its own, from
\* the i-th dirent of folder on
SoloUris(d, reg, folder, i) ==
    IF folder \notin DOMAIN d \/ i > Len(d[folder]) THEN << >>
    ELSE LET loc == Append(folder, d[folder][i].name)
             kind == d[folder][i].kind
             here == IF ~IncludeRuleOf(reg, EntryAt(d, loc)) THEN << >>
                     ELSE IF kind = "dir" THEN SoloUris(d, reg, loc, 1)
                     ELSE IF kind = "file" THEN <<loc>>
                     ELSE << >>
         IN  here \o SoloUris(d, reg, folder, i + 1)

\* for every storage, registry and root: the directories listed and the
\* locations returned by a traversal that runs alone
Solo ==
    [d \in Disks |-> [reg \in Registries |-> [root \in Roots |->
        [listed |-> SoloListed(d, reg, root), uris |-> SoloUris(d, reg, root, 1)]]]]

SoloFails(root) == \E p \in Solo[disk][registry][root].listed : ~ReaddirOk(disk, failing, p)

RECURSIVE SoloAll(_, _)
\* the locations of the first n folders of a folder list, each traversed alone
SoloAll(folders, n) ==
    IF n = 0 THEN << >>
    ELSE SoloAll(folders, n - 1) \o Solo[disk][registry][folders[n].uri].uris

\* the outcome of a call is the one it has when it runs alone
AsIfAlone(w) ==
    LET n == Len(w.folders) IN
    /\ w.pc = "failed" => \E i \in 1..n : SoloFails(w.folders[i].uri)
    /\ w.pc \in {"hook", "building", "done"} =>
          /\ \A i \in 1..n : ~SoloFails(w.folders[i].uri)
          /\ Len(w.documents) = Len(SoloAll(w.folders, n)) + Len(w.hookLog)
          /\ Uris(SubSeq(w.documents, 1, Len(SoloAll(w.folders, n)))) = SoloAll(w.folders, n)
          /\ \A j \in 1..Len(SoloAll(w.folders, n)) :
                /\ w.documents[j].id \in 1..Len(docStore)
                /\ docStore[w.documents[j].id] = w.documents[j].uri
          /\ SubSeq(w.documents, Len(SoloAll(w.folders, n)) + 1, Len(w.documents)) = w.hookLog
    /\ w.pc \in {"building", "done"} => w.documents \in Range(buildCalls)

Built(w) == IF w.pc \in {"building", "done"} THEN 1 ELSE 0

C12_State ==
    /\ AsIfAlone(wm)
    /\ AsIfAlone(wm2)
    /\ Len(buildCalls) = Built(wm) + Built(wm2)

C12_Step ==
    /\ (wm' # wm \/ tasks' # tasks) => (wm2' = wm2 /\ tasks2' = tasks2)
    /\ buildCalls' # buildCalls =>
          \/ wm.pc = "hook" /\ wm'.pc = "building" /\ buildCalls' = Append(buildCalls, wm.documents)
          \/ wm2.pc = "hook" /\ wm2'.pc = "building" /\ buildCalls' = Append(buildCalls, wm2.documents)

\* C12: when initializeWorkspace is called a second time, at any moment after
\* the first call began, each call fails exactly if one of its own folders has
\* a listing that fails, and otherwise gives build the documents of its own
\* folders, in folder order and the order of their traversals, followed by the
\* documents of its own hook, each with the identity the store has for its
\* location: what it gives when it runs alone.  A step of one call changes
\* nothing of the other; build is invoked once by each call that succeeds.
C12_CallsDoNotInterfere == [](C12_State) /\ [][C12_Step]_vars

\* C12 witness: the second call, started after the first and for other
\* folders, has given build its documents while a traversal of the first call,
\* with a listing answered, waits for another; later the first call is through
\* too.
C12_Witness ==
    /\ wm2.pc \in {"building", "done"}
    /\ wm2.documents # << >>
    /\ wm2.hookLog # << >>
    /\ wm2.folders # wm.folders
    /\ wm.pc = "traversing"
    /\ \E k \in TaskIds : tasks[k].pc = "listing" /\ tasks[k].answered >= 1

\* the call has gone past line 51
Loaded(w) == w.pc \in {"hook", "building", "done"}

C13_State ==
    (wm2.pc # "idle" /\ wm2.folders = wm.folders) =>
        /\ Len(tasks2) = Len(tasks)
        /\ \A i \in TaskIds :
              /\ tasks2[i].root = tasks[i].root
              /\ tasks2[i].listed[1] = tasks[i].root
              /\ tasks2[i].answered = tasks[i].answered => tasks2[i] = tasks[i]
              /\ (tasks[i].returned /\ tasks2[i].returned) =>
                    /\ tasks2[i].listed = tasks[i].listed
                    /\ tasks2[i].answered = Len(tasks[i].listed)
                    /\ tasks2[i].result = tasks[i].result
        /\ (Loaded(wm) /\ Loaded(wm2)) =>
              /\ wm2.uris = wm.uris
              /\ SubSeq(wm2.documents, 1, Len(wm2.uris)) = SubSeq(wm.documents, 1, Len(wm.uris))
              /\ Range(wm.uris) = Range(docStore)
              /\ wm2.hookLog = wm.hookLog => wm2.documents = wm.documents
        /\ (Len(buildCalls) = 2 /\ wm2.hookLog = wm.hookLog) => buildCalls[2] = buildCalls[1]

C13_Step ==
    (wm2'.folders = wm.folders /\ Loaded(wm) /\ ~Loaded(wm2) /\ Loaded(wm2')) =>
        docStore' = docStore

\* C13: on an unchanged storage, a second call with the same folders issues the
\* listing of every root again and, traversal by traversal, the same listings
\* with the same results as the first call; once both calls have mapped their
\* locations they hold the same locations and, for them, the same documents in
\* the same order; the second call, mapping after the first, leaves the
\* document store as it is; and the two lists given to build are equal when
\* the hook contributed the same documents to both.
C13_ReinitializationIsIdempotent == [](C13_State) /\ [][C13_Step]_vars

\* C13 witness: both calls, for the same two folders, are done; a traversal of
\* each listed a subdirectory, build got the same non-empty list twice, and the
\* store holds one document for every location.
C13_Witness ==
    /\ wm.pc = "done"
    /\ wm2.pc = "done"
    /\ wm2.folders = wm.folders
    /\ Len(wm.folders) = 2
    /\ Len(tasks[1].listed) >= 2
    /\ tasks2[1].listed = tasks[1].listed
    /\ wm.uris # << >>
    /\ Len(buildCalls) = 2
    /\ buildCalls[1] = buildCalls[2]
    /\ Len(docStore) = Cardinality(Range(wm.uris))

(***************************************************************************)
(* The invocations of the filter (TraverseSpec)                            *)
(***************************************************************************)
\* the entries of directory p that a frame of the call has gone past
Passed(t, p) ==
    IF \E n \in 1..Len(t.stack) : t.stack[n].folderPath = p
    THEN LET f == t.stack[CHOOSE n \in 1..Len(t.stack) : t.stack[n].folderPath = p]
         IN  {EntryAt(disk, Append(p, disk[p][j].name)) : j \in 1..(IF f.content = << >> THEN 0 ELSE f.i - 1)}
    ELSE {EntryAt(disk, Append(p, disk[p][j].name)) : j \in 1..Len(disk[p])}

\* the listings of the call that were answered with the dirents
ListedOk(t) == {t.listed[n] : n \in {m \in 1..t.answered : ReaddirOk(disk, failing, t.listed[m])}}

\* C14: a traverse call with a filter has invoked it exactly once for every
\* entry its loops have gone past in the directories it listed, and for
\* nothing else, never for its root; when it returns, that is once for every
\* entry of every directory it listed.  Whenever the listing of a directory
\* below the root is issued, and whenever a file is collected, the filter was
\* invoked for its entry, and accepted it, by then.
C14_FilterOncePerEntry ==
    \A k \in TaskIds :
        LET t == tasks[k] IN
        t.filter.kind # "undefined" =>
            /\ Cardinality(Range(t.filterLog)) = Len(t.filterLog)
            /\ t.pc # "failed" =>
                  Range(t.filterLog) = UNION {Passed(t, p) : p \in ListedOk(t)}
            /\ Range(t.filterLog) \subseteq UNION {Passed(t, p) : p \in ListedOk(t)} \cup
                  UNION {{EntryAt(disk, Append(p, disk[p][j].name)) : j \in 1..Len(disk[p])} :
                            p \in ListedOk(t)}
            /\ \A e \in Range(t.filterLog) :
                  /\ Append(e.container, e.name) # t.root
                  /\ IsPrefix(t.root, e.container)
            /\ \A n \in 2..Len(t.listed) :
                  /\ EntryAt(disk, t.listed[n]) \in Range(t.filterLog)
                  /\ Passes(t.filter, EntryAt(disk, t.listed[n]))
            /\ \A u \in Range(t.uris) :
                  /\ EntryAt(disk, u) \in Range(t.filterLog)
                  /\ Passes(t.filter, EntryAt(disk, u))
            /\ t.returned =>
                  /\ ListedOk(t) = Range(t.listed)
                  /\ Range(t.filterLog) =
                        {EntryAt(disk, loc) : loc \in {l \in Locations(disk) : Parent(l) \in Range(t.listed)}}

\* C14 witness: a call whose filter rejects a directory has returned; it listed
\* a subdirectory, and its filter was shown the rejected directory and at
\* least three other entries.
C14_Witness ==
    \E k \in TaskIds :
        /\ tasks[k].returned
        /\ tasks[k].filter.kind = "reject"
        /\ Len(tasks[k].listed) >= 2
        /\ Len(tasks[k].filterLog) >= 4
        /\ \E e \in Range(tasks[k].filterLog) : e.isDirectory /\ e \in tasks[k].filter.rejected

(***************************************************************************)
(* The omitted filter (TraverseSpec)                                       *)
(***************************************************************************)
\* the predicate that accepts every entry
AlwaysTrue == RejectFilter({})

\* C15: two traverse calls for the same root, one without a filter and one
\* with a filter that accepts every entry, that have had the same number of
\* listings answered have issued the same listings in the same order, collected
\* the same locations in the same order, and are at the same point: both
\* suspended in the same loops, both failed with the same error, or both
\* returned with the same list.
C15_OmittedFilterAcceptsAll ==
    \A j, k \in TaskIds :
        (/\ tasks[j].filter = NoFilter
         /\ tasks[k].filter = AlwaysTrue
         /\ tasks[j].root = tasks[k].root
         /\ tasks[j].answered = tasks[k].answered) =>
            /\ tasks[j].listed = tasks[k].listed
            /\ tasks[j].uris = tasks[k].uris
            /\ tasks[j].stack = tasks[k].stack
            /\ tasks[j].pc = tasks[k].pc
            /\ tasks[j].error = tasks[k].error
            /\ tasks[j].returned = tasks[k].returned
            /\ tasks[j].result = tasks[k].result

\* C15 witness: a call without a filter and a call with the filter that accepts
\* everything, for the same root, returned after listing a subdirectory and
\* collecting files; the filter was invoked for the one and not for the other.
C15_Witness ==
    \E j, k \in TaskIds :
        /\ tasks[j].filter = NoFilter
        /\ tasks[k].filter = AlwaysTrue
        /\ tasks[j].root = tasks[k].root
        /\ tasks[j].returned
        /\ tasks[k].returned
        /\ Len(tasks[j].listed) >= 2
        /\ tasks[j].result # << >>
        /\ tasks[j].filterLog = << >>
        /\ tasks[k].filterLog # << >>

(***************************************************************************)
(* Termination (FairSpec)                                                  *)
(***************************************************************************)
C16_State ==
    \A k \in TaskIds :
        /\ Cardinality(Range(tasks[k].listed)) = Len(tasks[k].listed)
        /\ \A n \in 2..Len(tasks[k].listed) :
              /\ tasks[k].listed[n] \in Below(disk, tasks[k].root)
              /\ KindAt(disk, tasks[k].listed[n]) = "dir"
        /\ Len(tasks[k].listed) <= 1 + Cardinality(Below(disk, tasks[k].root))

\* C16: when every issued listing is answered and the hook and build complete,
\* every root traversal that was started returns or fails and every call of
\* initializeWorkspace ends done or failed; a traversal lists no location twice
\* and, below its root, only locations whose dirent is a directory, never one
\* that is a symbolic link or any other kind.
C16_TraversalTerminates ==
    /\ [](C16_State)
    /\ (wm.pc # "idle") ~> (wm.pc \in {"done", "failed"})
    /\ \A k \in 1..MaxFolders :
          (k <= Len(tasks)) ~> (k <= Len(tasks) /\ tasks[k].pc \in {"done", "failed"})

\* C16 witness: a call with two folders is done; one root holds a symbolic
\* link, and a traversal listed a subdirectory.
C16_Witness ==
    /\ wm.pc = "done"
    /\ Len(tasks) = 2
    /\ \E k \in TaskIds :
          \E loc \in Below(disk, tasks[k].root) :
              Parent(loc) = tasks[k].root /\ KindAt(disk, loc) = "symlink"
    /\ \E k \in TaskIds : Len(tasks[k].listed) >= 2

(***************************************************************************)
(* Several folders, one of which fails (Spec)                              *)
(***************************************************************************)
\* the traversal that was the first, in time, to fail
FirstFailed ==
    wm.all.settled[CHOOSE n \in 1..Len(wm.all.settled) :
                      /\ tasks[wm.all.settled[n]].pc = "failed"
                      /\ \A m \in 1..(n - 1) : tasks[wm.all.settled[m]].pc # "failed"]

C17_State ==
    /\ FailedTasks # {} <=> wm.pc = "failed"
    /\ wm.pc = "failed" =>
          /\ wm.error = tasks[FirstFailed].error
          /\ wm.uris = << >>
          /\ wm.documents = << >>
          /\ ~wm.hookInvoked
          /\ docStore = << >>
          /\ buildCalls = << >>

C17_Step ==
    /\ (wm.pc = "traversing" /\ wm'.pc = "failed") =>
          \E k \in TaskIds :
              /\ tasks[k].pc = "listing"
              /\ tasks'[k].pc = "failed"
              /\ wm'.error = tasks'[k].error
              /\ \A j \in TaskIds \ {k} : tasks'[j] = tasks[j]
    /\ wm.pc = "failed" =>
          /\ wm'.pc = "failed"
          /\ wm'.error = wm.error
          /\ wm'.documents = wm.documents
          /\ wm'.hookInvoked = wm.hookInvoked
          /\ docStore' = docStore
          /\ buildCalls' = buildCalls

\* C17: initializeWorkspace is rejected in the very step in which a root
\* traversal fails for the first time, whatever the position of its folder and
\* however many other traversals have a listing outstanding, with the error of
\* that traversal; that step leaves the other traversals as they are, and they
\* go on; whatever they return or fail with later changes neither the error
\* nor the outcome, and reaches neither the document store, the hook nor build.
C17_RejectsOnFirstFailure == [](C17_State) /\ [][C17_Step]_vars

\* C17 witness: the traversal of the second folder failed first; the traversal
\* of the first folder went on, listed a subdirectory and returned files after
\* the rejection, and no document was created.
C17_Witness ==
    /\ wm.pc = "failed"
    /\ wm.all.settled = <<2, 1>>
    /\ tasks[2].pc = "failed"
    /\ tasks[1].returned
    /\ tasks[1].result # << >>
    /\ Len(tasks[1].listed) >= 2
    /\ docStore = << >>

(***************************************************************************)
(* Hidden entries and the default filter (Spec)                            *)
(***************************************************************************)
\* C18: the default filter rejects every entry whose name starts with '.', a
\* file as well as a directory, even a file whose extension is recognized; no
\* root traversal of initializeWorkspace collects or returns a location whose
\* name starts with '.', and none lists a directory whose name does.
C18_HiddenFilesAreNotCollected ==
    \A k \in TaskIds :
        /\ \A e \in Range(tasks[k].filterLog) :
              Hidden(e.name) => ~CallFilter(tasks[k].filter, e)
        /\ \A u \in Range(tasks[k].uris) \cup Range(tasks[k].result) : ~Hidden(Last(u))
        /\ \A n \in 2..Len(tasks[k].listed) : ~Hidden(Last(tasks[k].listed[n]))
        /\ \A j \in 1..Len(wm.uris) : ~Hidden(Last(wm.uris[j]))

\* C18 witness: the call is done; the filter of a root traversal was shown a
\* file whose name starts with '.' and has a recognized extension, and a
\* directory whose name starts with '.'; the traversal returned another file.
C18_Witness ==
    /\ wm.pc = "done"
    /\ \E k \in TaskIds :
          /\ tasks[k].returned
          /\ tasks[k].result # << >>
          /\ \E e \in Range(tasks[k].filterLog) :
                e.isFile /\ Hidden(e.name) /\ ExtName(e.name) \in RecognizedExtensions
          /\ \E e \in Range(tasks[k].filterLog) : e.isDirectory /\ Hidden(e.name)

(***************************************************************************)
(* Repeated and nested workspace folders (Spec)                            *)
(***************************************************************************)
\* C19: in the list given to build, the documents of the collected locations
\* are pairwise different: no location has its document in the list twice,
\* whatever the list of workspace folders.
C19_BuildListHasNoDuplicates ==
    buildCalls # << >> =>
        \A i, j \in 1..Len(wm.uris) :
            i # j => buildCalls[1][i].uri # buildCalls[1][j].uri

====
